---- MODULE Spec2Model ----
(***************************************************************************)
(* Model of mev_bot.py: the per-subscriber settings dictionary and its     *)
(* JSON file, the command handlers (/configure, text replies, /stop), the  *)
(* data correlation (process_data) and the polling coroutine               *)
(* (check_mev_values).                                                     *)
(*                                                                         *)
(* Texts are sequences of one-character strings.  Dollar amounts that the  *)
(* code holds as floats (thresholds, value / 10**6) are kept exact: a      *)
(* threshold is an integer number of dollars, a raw value an integer       *)
(* number of micro-dollars, and value / 10**6 > threshold is decided as    *)
(* value > threshold * 10**6.                                              *)
(***************************************************************************)
EXTENDS Integers, Sequences, FiniteSets, TLC

VARIABLES
    user_settings,  \* the module-level dict: chat id -> settings record
    keys,           \* insertion order of the dict's keys
    file,           \* user_settings.json: [exists, keys, data]
    pc,             \* where check_mev_values is: iter, sending, sleeping, blocked, crashed
    pos,            \* position of the dict iterator of the running pass
    iterUsed,       \* dict size seen by the iterator when the pass began
    settings,       \* the coroutine's local `settings`: the chat id it was last bound to
    pending,        \* the message whose send is awaited
    sent,           \* messages delivered in the current pass
    evals,          \* what the current pass did for each subscriber it evaluated
    crash,          \* the exception that ended check_mev_values, if any
    lastSleep,      \* hours of the most recent asyncio.sleep
    evaldPrev,      \* subscribers evaluated in the previous pass
    lastOp,         \* the last external event (handler call or restart)
    ops,            \* number of external events so far
    script,         \* per subscriber: how much of Script their input history matches
    cIn,            \* arguments of the last direct process_data call
    cOut            \* its result

vars == << user_settings, keys, file, pc, pos, iterUsed, settings, pending, sent,
           evals, crash, lastSleep, evaldPrev, lastOp, ops, script, cIn, cOut >>

schedVars == << pc, pos, iterUsed, settings, pending, sent, evals, crash,
                lastSleep, evaldPrev >>

----------------------------------------------------------------------------
(* Bounds *)

\* external events (handler calls, restarts) in one behaviour of SpecDialog
MaxOps == 4
\* external events in one behaviour of Spec
MaxSchedOps == 2
\* MEV records in one direct process_data call
MaxRecs == 2
\* validators in one direct process_data call
MaxVals == 2

(* Program constants *)

\* value / 10**6
Micro == 1000000
\* final_block_height - 50000
Lookback == 50000
\* the defaults written by configure
DefaultInterval == 1
DefaultThreshold == 300

Users == {"A", "B"}
Unbound == "unbound"
NoMessage == [to |-> "nobody", threshold |-> 0, lines |-> << >>]

----------------------------------------------------------------------------
(* Texts: update.message.text.strip().lower(), int(message), float(message) *)

Digits == {"0", "1", "2", "3", "4", "5", "6", "7", "8", "9"}

DigitVal(c) ==
    CASE c = "0" -> 0 [] c = "1" -> 1 [] c = "2" -> 2 [] c = "3" -> 3
      [] c = "4" -> 4 [] c = "5" -> 5 [] c = "6" -> 6 [] c = "7" -> 7
      [] c = "8" -> 8 [] c = "9" -> 9

LowerChar(c) ==
    CASE c = "Y" -> "y" [] c = "E" -> "e" [] c = "S" -> "s"
      [] c = "N" -> "n" [] c = "O" -> "o"
      [] OTHER -> c

Lower(s) == [i \in 1..Len(s) |-> LowerChar(s[i])]

RECURSIVE LStrip(_)
LStrip(s) == IF s # << >> /\ Head(s) = " " THEN LStrip(Tail(s)) ELSE s

RECURSIVE RStrip(_)
RStrip(s) ==
    IF s # << >> /\ s[Len(s)] = " " THEN RStrip(SubSeq(s, 1, Len(s) - 1)) ELSE s

Strip(s) == RStrip(LStrip(s))

Normalize(text) == Lower(Strip(text))

\* the digits of a literal, after an optional sign
Unsigned(s) == IF s # << >> /\ Head(s) \in {"+", "-"} THEN Tail(s) ELSE s

\* int(message) succeeds: an optional sign and at least one digit
IsIntLiteral(s) ==
    /\ Unsigned(s) # << >>
    /\ \A i \in 1..Len(Unsigned(s)) : Unsigned(s)[i] \in Digits

RECURSIVE DigitsValue(_)
DigitsValue(d) ==
    IF d = << >> THEN 0
    ELSE 10 * DigitsValue(SubSeq(d, 1, Len(d) - 1)) + DigitVal(d[Len(d)])

ParseInt(s) ==
    IF s # << >> /\ Head(s) = "-" THEN 0 - DigitsValue(Unsigned(s))
    ELSE DigitsValue(Unsigned(s))

\* float(message) on the texts of the model: every integer literal is a float
\* literal with the same value; the other texts of TextInputs raise ValueError
IsFloatLiteral(s) == IsIntLiteral(s)
ParseFloat(s) == ParseInt(s)

----------------------------------------------------------------------------
(* process_data *)

NoMoniker == "nan"

\* 'MEV value ($)' > threshold, i.e. value / 10**6 > threshold
AboveThreshold(value, threshold) == value > threshold * Micro

\* the rows pd.merge(how='left') yields for one MEV record: one per validator
\* whose pubkey equals the proposer, or one with a NaN moniker when none does
JoinedRows(r, validator_df) ==
    LET matches == SelectSeq(validator_df, LAMBDA v : v.pubkey = r.proposer)
    IN  IF matches = << >>
        THEN << [height |-> r.height, proposer |-> r.proposer,
                 value |-> r.value, moniker |-> NoMoniker] >>
        ELSE [i \in 1..Len(matches) |->
                 [height |-> r.height, proposer |-> r.proposer,
                  value |-> r.value, moniker |-> matches[i].moniker]]

RECURSIVE LeftMerge(_, _)
LeftMerge(mev_df, validator_df) ==
    IF mev_df = << >> THEN << >>
    ELSE JoinedRows(Head(mev_df), validator_df)
             \o LeftMerge(Tail(mev_df), validator_df)

\* A DataFrame built from an empty list has no columns: mev_df['value'] and
\* right_on='pubkey' raise KeyError on it.
process_data(mev_df, validator_df, threshold) ==
    IF mev_df = << >> \/ validator_df = << >>
    THEN [err |-> "KeyError", rows |-> << >>]
    ELSE [err |-> "none",
          rows |-> SelectSeq(LeftMerge(mev_df, validator_df),
                             LAMBDA row : AboveThreshold(row.value, threshold))]

----------------------------------------------------------------------------
(* The settings dictionary and user_settings.json *)

Defaults ==
    [notifications |-> FALSE, interval |-> DefaultInterval,
     threshold |-> DefaultThreshold]

NoFile == [exists |-> FALSE, keys |-> << >>, data |-> << >>]

\* json.dump(user_settings, file)
save_settings(dict, order) == [exists |-> TRUE, keys |-> order, data |-> dict]

\* json.load(file), or {} on FileNotFoundError
load_settings(f) ==
    IF f.exists THEN [keys |-> f.keys, data |-> f.data]
    ELSE [keys |-> << >>, data |-> << >>]

Has(u) == u \in DOMAIN user_settings

\* the dialog stage as handle_text tells it, from the record alone
StageOf(rec) ==
    IF ~rec.notifications THEN "AwaitingEnableChoice"
    ELSE IF rec.interval = DefaultInterval THEN "AwaitingInterval"
    ELSE IF rec.threshold = DefaultThreshold THEN "AwaitingThreshold"
    ELSE "Active"

Yes == << "y", "e", "s" >>
No == << "n", "o" >>

\* what a user may type
TextInputs ==
    { Yes, << " ", "Y", " " >>, No, << "4" >>, << "1" >>, << "2", "5", "0" >>,
      << "3", "0", "0" >>, << "a", "b", "c" >>, << "-", "3" >> }

\* handle_text without the save_settings call of line 74
HandleTextNoSave(rec, message) ==
    IF message \in {<< "y" >>, Yes}
    THEN [rec |-> [rec EXCEPT !.notifications = TRUE], save |-> FALSE]
    ELSE IF message \in {<< "n" >>, No}
    THEN [rec |-> [rec EXCEPT !.notifications = FALSE], save |-> FALSE]
    ELSE IF rec.notifications /\ rec.interval = 1
    THEN IF IsIntLiteral(message)
         THEN [rec |-> [rec EXCEPT !.interval = ParseInt(message)], save |-> FALSE]
         ELSE [rec |-> rec, save |-> FALSE]
    ELSE IF rec.notifications /\ rec.threshold = 300
    THEN IF IsFloatLiteral(message)
         THEN [rec |-> [rec EXCEPT !.threshold = ParseFloat(message)], save |-> FALSE]
         ELSE [rec |-> rec, save |-> FALSE]
    ELSE [rec |-> rec, save |-> FALSE]

\* handle_text whose ValueError branch of line 67 gives up on the dialog:
\* it switches notifications off and saves
HandleTextGivesUp(rec, message) ==
    IF message \in {<< "y" >>, Yes}
    THEN [rec |-> [rec EXCEPT !.notifications = TRUE], save |-> FALSE]
    ELSE IF message \in {<< "n" >>, No}
    THEN [rec |-> [rec EXCEPT !.notifications = FALSE], save |-> FALSE]
    ELSE IF rec.notifications /\ rec.interval = 1
    THEN IF IsIntLiteral(message)
         THEN [rec |-> [rec EXCEPT !.interval = ParseInt(message)], save |-> FALSE]
         ELSE [rec |-> [rec EXCEPT !.notifications = FALSE], save |-> TRUE]
    ELSE IF rec.notifications /\ rec.threshold = 300
    THEN IF IsFloatLiteral(message)
         THEN [rec |-> [rec EXCEPT !.threshold = ParseFloat(message)], save |-> TRUE]
         ELSE [rec |-> rec, save |-> FALSE]
    ELSE [rec |-> rec, save |-> FALSE]

\* the body of handle_text for a user who has a record: the record after the
\* message and whether save_settings is called
HandleTextResult(rec, message) ==
    IF message \in {<< "y" >>, Yes}
    THEN [rec |-> [rec EXCEPT !.notifications = TRUE], save |-> FALSE]
    ELSE IF message \in {<< "n" >>, No}
    THEN [rec |-> [rec EXCEPT !.notifications = FALSE], save |-> FALSE]
    ELSE IF rec.notifications /\ rec.interval = 1
    THEN IF IsIntLiteral(message)
         THEN [rec |-> [rec EXCEPT !.interval = ParseInt(message)], save |-> FALSE]
         ELSE [rec |-> rec, save |-> FALSE]
    ELSE IF rec.notifications /\ rec.threshold = 300
    THEN IF IsFloatLiteral(message)
         THEN [rec |-> [rec EXCEPT !.threshold = ParseFloat(message)], save |-> TRUE]
         ELSE [rec |-> rec, save |-> FALSE]
    ELSE [rec |-> rec, save |-> FALSE]

\* the record configure leaves for a user, given the one it finds (if any)
ConfigureRecord(had, rec) == IF had THEN rec ELSE Defaults

\* whether configure calls save_settings
ConfigureSaves == FALSE

\* stop that puts the whole record back to the defaults
StopRecordResets(rec) == Defaults

\* the record stop leaves
StopRecord(rec) == [rec EXCEPT !.notifications = FALSE]

----------------------------------------------------------------------------
(* The input history monitor *)

ConfigureInput == [op |-> "configure", text |-> << >>]
StopInput == [op |-> "stop", text |-> << >>]
TextInput(t) == [op |-> "text", text |-> t]

\* the dialog of the walkthrough: /configure, "yes", "4", "250"
Script ==
    << ConfigureInput, TextInput(Yes), TextInput(<< "4" >>),
       TextInput(<< "2", "5", "0" >>) >>

\* script[u] = k >= 0: u had no record, and since then u's inputs were exactly
\* the first k of Script (inputs that arrive while u has no record and create
\* none do not count); -1: anything else
ScriptStep(k, input) ==
    IF k >= 0 /\ k < Len(Script) /\ input = Script[k + 1] THEN k + 1
    ELSE IF k = 0 /\ input.op # "configure" THEN 0
    ELSE 0 - 1

Event(u, input, bound) ==
    /\ ops < bound
    /\ ops' = ops + 1
    /\ lastOp' = [op |-> input.op, user |-> u, text |-> input.text]
    /\ script' = [script EXCEPT ![u] = ScriptStep(script[u], input)]

\* a handler runs only while check_mev_values is suspended in an await (or dead)
LoopYielded == pc \in {"sending", "sleeping", "crashed"}

----------------------------------------------------------------------------
(* Handlers *)

configure(u, bound) ==
    /\ LoopYielded
    /\ Event(u, ConfigureInput, bound)
    /\ user_settings' =
          [x \in DOMAIN user_settings \cup {u} |->
              IF x = u
              THEN ConfigureRecord(Has(u), IF Has(u) THEN user_settings[u] ELSE Defaults)
              ELSE user_settings[x]]
    /\ keys' = IF Has(u) THEN keys ELSE Append(keys, u)
    /\ file' = IF ConfigureSaves THEN save_settings(user_settings', keys') ELSE file
    /\ UNCHANGED << schedVars, cIn, cOut >>

\* handle_text that starts a record for a user who has none
\* (user_settings.setdefault(user_id, defaults) instead of the return of line 54)
handle_textCreates(u, text, bound) ==
    /\ LoopYielded
    /\ Event(u, TextInput(text), bound)
    /\ LET rec == IF Has(u) THEN user_settings[u] ELSE Defaults
           r == HandleTextResult(rec, Normalize(text))
       IN  /\ user_settings' =
                 [x \in DOMAIN user_settings \cup {u} |->
                     IF x = u THEN r.rec ELSE user_settings[x]]
           /\ keys' = IF Has(u) THEN keys ELSE Append(keys, u)
           /\ file' = IF r.save THEN save_settings(user_settings', keys') ELSE file
    /\ UNCHANGED << schedVars, cIn, cOut >>

handle_text(u, text, bound) ==
    /\ LoopYielded
    /\ Event(u, TextInput(text), bound)
    /\ IF ~Has(u)
       THEN UNCHANGED << user_settings, file >>
       ELSE LET r == HandleTextResult(user_settings[u], Normalize(text))
            IN  /\ user_settings' = [user_settings EXCEPT ![u] = r.rec]
                /\ file' = IF r.save THEN save_settings(user_settings', keys) ELSE file
    /\ UNCHANGED << keys, schedVars, cIn, cOut >>

stop(u, bound) ==
    /\ LoopYielded
    /\ Event(u, StopInput, bound)
    /\ IF ~Has(u)
       THEN UNCHANGED << user_settings, file >>
       ELSE /\ user_settings' = [user_settings EXCEPT ![u] = StopRecord(user_settings[u])]
            /\ file' = save_settings(user_settings', keys)
    /\ UNCHANGED << keys, schedVars, cIn, cOut >>

----------------------------------------------------------------------------
(* What the analytics API may answer *)

V1 == [pubkey |-> "p1", moniker |-> "alice"]
V2 == [pubkey |-> "p2", moniker |-> "bob"]
\* a second entry for V1's pubkey: a directory that breaks pubkey uniqueness
V1b == [pubkey |-> "p1", moniker |-> "alice2"]

R500 == [height |-> 59001, proposer |-> "p1", value |-> 500000000]
R1200 == [height |-> 59002, proposer |-> "p2", value |-> 1200000000]
\* exactly $300, proposer in no directory
REq == [height |-> 59003, proposer |-> "p9", value |-> 300000000]
\* one micro-dollar above $300, proposer in no directory
RJust == [height |-> 59004, proposer |-> "p9", value |-> 300000001]
\* older than the lookback window
ROld == [height |-> 5000, proposer |-> "p1", value |-> 2000000000]

\* the MEV datapoints the API holds
MevUpstream == { << >>, << R500, R1200 >>, << ROld, REq, RJust >> }

\* the validator lists the API holds (pubkeys unique)
Directories == { << >>, << V1, V2 >> }

Failed == [status |-> "failed", data |-> << >>]
NotCalled == [status |-> "not_called", data |-> << >>]
Ok(d) == [status |-> "ok", data |-> d]

\* requests.get(...).json().get('datapoints', []) for the height window, or an
\* exception (connection error, body that is not JSON)
get_mev_data(initial_block_height, final_block_height, upstream) ==
    IF upstream.status # "ok" THEN Failed
    ELSE Ok(SelectSeq(upstream.data,
                      LAMBDA r : /\ r.height >= initial_block_height
                                 /\ r.height <= final_block_height))

get_validator_data(upstream) == upstream

MevAnswers == {Failed} \cup {Ok(d) : d \in MevUpstream}
ValidatorAnswers == {Failed} \cup {Ok(d) : d \in Directories}

\* answers to GET /api/v1/block_range
BlockRangeAnswers ==
    { [kind |-> "ok", lastHeight |-> 60000],
      [kind |-> "transport_error", lastHeight |-> 0],
      [kind |-> "http_error_status", lastHeight |-> 0],
      [kind |-> "body_not_json", lastHeight |-> 0],
      [kind |-> "lastHeight_not_numeric", lastHeight |-> 0],
      [kind |-> "lastHeight_absent", lastHeight |-> 0],
      [kind |-> "lastHeight_null", lastHeight |-> 0],
      [kind |-> "never_returns", lastHeight |-> 0] }

\* lines 119-125: the height, or the exception and whether it is caught
\* (except catches RequestException and ValueError); requests.get has no
\* timeout, so a server that never answers leaves the call waiting
BlockRangeOutcome(answer) ==
    CASE answer.kind = "ok" -> "height"
      [] answer.kind \in {"transport_error", "http_error_status"} -> "caught"
      [] answer.kind \in {"body_not_json", "lastHeight_not_numeric"} -> "caught"
      [] answer.kind = "lastHeight_absent" -> "KeyError"
      [] answer.kind = "lastHeight_null" -> "TypeError"
      [] answer.kind = "never_returns" -> "hangs"

----------------------------------------------------------------------------
(* check_mev_values *)

\* f"{x:.2f}" of value / 10**6, in cents
Cents(value) == (value + (Micro \div 200)) \div (Micro \div 100)

FormatLine(row) ==
    [height |-> row.height, cents |-> Cents(row.value), moniker |-> row.moniker]

\* lines 137-139
FormatMessage(u, threshold, rows) ==
    [to |-> u, threshold |-> threshold,
     lines |-> [i \in 1..Len(rows) |-> FormatLine(rows[i])]]

\* asyncio.sleep(3600 * interval), in hours: a delay <= 0 returns at once
SleepHours(interval) == IF interval <= 0 THEN 0 ELSE interval

\* the subscriber whose interval line 143 reads
SleepSubject == settings

\* the exceptions of the two fetches that lines 128-129 let through
FetchCrash(mev, vals) ==
    IF mev.status = "failed" THEN "mev_fetch"
    ELSE IF vals.status = "failed" THEN "validator_fetch"
    ELSE "none"

\* one threshold for everybody: the first subscriber's
FilterThresholdShared(dict, u) == dict[keys[1]].threshold

\* the threshold line 134 filters one subscriber's data with
FilterThreshold(dict, u) == dict[u].threshold

\* the record of one evaluation: its outcome, the subscriber's settings when it
\* ran and what the two fetches returned
EvalRecord(outcome, rec, mev, vals) ==
    [outcome |-> outcome, interval |-> rec.interval, threshold |-> rec.threshold,
     mev |-> mev, vals |-> vals]

SetEval(u, e) == evals' = [x \in DOMAIN evals \cup {u} |-> IF x = u THEN e ELSE evals[x]]

Advance == pc' = "iter" /\ pos' = pos + 1 /\ UNCHANGED << crash, pending >>

Crash(reason) == pc' = "crashed" /\ crash' = reason /\ UNCHANGED << pos, pending >>

\* one iteration of the for loop (lines 116-141), up to the await of line 141
Evaluate(rangeAnswer, mevUpstream, valUpstream) ==
    /\ pc = "iter"
    /\ Len(keys) = iterUsed
    /\ pos <= Len(keys)
    /\ LET u == keys[pos]
           rec == user_settings[u]
           t == FilterThreshold(user_settings, u)
           final_block_height == rangeAnswer.lastHeight
           initial_block_height == final_block_height - Lookback
           mev == get_mev_data(initial_block_height, final_block_height, mevUpstream)
           vals == IF mev.status = "ok" THEN get_validator_data(valUpstream)
                   ELSE NotCalled
           out == process_data(mev.data, vals.data, t)
       IN  /\ settings' = u
           /\ IF ~rec.notifications
              THEN Advance /\ UNCHANGED evals
              ELSE IF BlockRangeOutcome(rangeAnswer) = "caught"
              THEN Advance /\ SetEval(u, EvalRecord("range_skip", rec, NotCalled, NotCalled))
              ELSE IF BlockRangeOutcome(rangeAnswer) = "hangs"
              THEN /\ pc' = "blocked"
                   /\ SetEval(u, EvalRecord("hung", rec, NotCalled, NotCalled))
                   /\ UNCHANGED << pos, crash, pending >>
              ELSE IF BlockRangeOutcome(rangeAnswer) \in {"KeyError", "TypeError"}
              THEN /\ Crash("block_range_" \o BlockRangeOutcome(rangeAnswer))
                   /\ SetEval(u, EvalRecord("crash", rec, NotCalled, NotCalled))
              ELSE IF FetchCrash(mev, vals) # "none"
              THEN /\ Crash(FetchCrash(mev, vals))
                   /\ SetEval(u, EvalRecord("crash", rec, mev, vals))
              ELSE IF mev.data = << >>
              THEN Advance /\ SetEval(u, EvalRecord("mev_empty", rec, mev, vals))
              ELSE IF out.err # "none"
              THEN /\ Crash("merge_KeyError")
                   /\ SetEval(u, EvalRecord("crash", rec, mev, vals))
              ELSE IF out.rows = << >>
              THEN Advance /\ SetEval(u, EvalRecord("nothing_above", rec, mev, vals))
              ELSE /\ pc' = "sending"
                   /\ pending' = FormatMessage(u, t, out.rows)
                   /\ SetEval(u, EvalRecord("sending", rec, mev, vals))
                   /\ UNCHANGED << pos, crash >>
    /\ UNCHANGED << user_settings, keys, file, iterUsed, sent, lastSleep, evaldPrev,
                    lastOp, ops, script, cIn, cOut >>

\* a send that is followed by a dump of the settings
DeliveredAndSaves ==
    /\ pc = "sending"
    /\ sent' = Append(sent, pending)
    /\ evals' = [evals EXCEPT ![pending.to].outcome = "delivered"]
    /\ pending' = NoMessage
    /\ pc' = "iter"
    /\ pos' = pos + 1
    /\ file' = save_settings(user_settings, keys)
    /\ UNCHANGED << user_settings, keys, iterUsed, settings, crash, lastSleep,
                    evaldPrev, lastOp, ops, script, cIn, cOut >>

\* the await of line 141 returns
Delivered ==
    /\ pc = "sending"
    /\ sent' = Append(sent, pending)
    /\ evals' = [evals EXCEPT ![pending.to].outcome = "delivered"]
    /\ pending' = NoMessage
    /\ pc' = "iter"
    /\ pos' = pos + 1
    /\ UNCHANGED << user_settings, keys, file, iterUsed, settings, crash, lastSleep,
                    evaldPrev, lastOp, ops, script, cIn, cOut >>

\* the await of line 141 raises (Telegram refuses or cannot be reached)
DeliveryFails ==
    /\ pc = "sending"
    /\ evals' = [evals EXCEPT ![pending.to].outcome = "crash"]
    /\ pending' = NoMessage
    /\ pc' = "crashed"
    /\ crash' = "send_error"
    /\ UNCHANGED << user_settings, keys, file, pos, iterUsed, settings, sent, lastSleep,
                    evaldPrev, lastOp, ops, script, cIn, cOut >>

\* the dict iterator finds the dict's size changed since the pass began
DictChanged ==
    /\ pc = "iter"
    /\ Len(keys) # iterUsed
    /\ pc' = "crashed"
    /\ crash' = "dict_changed_size"
    /\ UNCHANGED << user_settings, keys, file, pos, iterUsed, settings, pending, sent,
                    evals, lastSleep, evaldPrev, lastOp, ops, script, cIn, cOut >>

\* the for loop is exhausted: line 143
EndPass ==
    /\ pc = "iter"
    /\ Len(keys) = iterUsed
    /\ pos > Len(keys)
    /\ IF SleepSubject = Unbound
       THEN /\ pc' = "crashed"
            /\ crash' = "settings_unbound"
            /\ UNCHANGED lastSleep
       ELSE /\ pc' = "sleeping"
            /\ lastSleep' = SleepHours(user_settings[SleepSubject].interval)
            /\ UNCHANGED crash
    /\ UNCHANGED << user_settings, keys, file, pos, iterUsed, settings, pending, sent,
                    evals, evaldPrev, lastOp, ops, script, cIn, cOut >>

\* the sleep is over: the next pass begins
Wake ==
    /\ pc = "sleeping"
    /\ pc' = "iter"
    /\ pos' = 1
    /\ iterUsed' = Len(keys)
    /\ evaldPrev' = DOMAIN evals
    /\ evals' = << >>
    /\ sent' = << >>
    /\ UNCHANGED << user_settings, keys, file, settings, pending, crash, lastSleep,
                    lastOp, ops, script, cIn, cOut >>

\* the process is stopped and started again: main() calls load_settings and
\* creates the check_mev_values task anew
Restart(bound) ==
    /\ ops < bound
    /\ ops' = ops + 1
    /\ lastOp' = [op |-> "restart", user |-> "-", text |-> << >>]
    /\ user_settings' = load_settings(file).data
    /\ keys' = load_settings(file).keys
    /\ script' = [u \in Users |-> IF u \in DOMAIN user_settings' THEN 0 - 1 ELSE 0]
    /\ pc' = "iter"
    /\ pos' = 1
    /\ iterUsed' = Len(keys')
    /\ settings' = Unbound
    /\ pending' = NoMessage
    /\ sent' = << >>
    /\ evals' = << >>
    /\ crash' = "none"
    /\ lastSleep' = 0
    /\ evaldPrev' = {}
    /\ UNCHANGED << file, cIn, cOut >>

----------------------------------------------------------------------------
(* The program *)

\* a store an earlier run left behind: A answered "yes" and "4" and stopped
\* there, then B answered "yes", "2", "1000", which saved both records
StoreAB ==
    save_settings(
        [u \in {"A", "B"} |->
            IF u = "A" THEN [notifications |-> TRUE, interval |-> 4, threshold |-> 300]
            ELSE [notifications |-> TRUE, interval |-> 2, threshold |-> 1000]],
        << "A", "B" >>)

\* a store an earlier run left behind: A alone answered "yes", "4", "250"
StoreA ==
    save_settings(
        [u \in {"A"} |-> [notifications |-> TRUE, interval |-> 4, threshold |-> 250]],
        << "A" >>)

InitFiles == {NoFile, StoreA, StoreAB}

NoCall == [mev |-> << >>, vals |-> << >>, threshold |-> 0]
NoResult == [err |-> "not_called", rows |-> << >>]

Init ==
    /\ file \in InitFiles
    /\ user_settings = load_settings(file).data
    /\ keys = load_settings(file).keys
    /\ pc = "iter"
    /\ pos = 1
    /\ iterUsed = Len(keys)
    /\ settings = Unbound
    /\ pending = NoMessage
    /\ sent = << >>
    /\ evals = << >>
    /\ crash = "none"
    /\ lastSleep = 0
    /\ evaldPrev = {}
    /\ lastOp = [op |-> "start", user |-> "-", text |-> << >>]
    /\ ops = 0
    /\ script = [u \in Users |-> IF u \in DOMAIN user_settings THEN 0 - 1 ELSE 0]
    /\ cIn = NoCall
    /\ cOut = NoResult

\* a direct call of process_data
Correlate ==
    /\ cOut.err = "not_called"
    /\ cIn # NoCall
    /\ cOut' = process_data(cIn.mev, cIn.vals, cIn.threshold)
    /\ UNCHANGED << user_settings, keys, file, schedVars, lastOp, ops, script, cIn >>

\* one step of the program, the environment's inputs drawn from the given sets
Step(bound, texts, rangeAnswers, mevAnswers, valAnswers) ==
    \/ \E u \in Users : configure(u, bound)
    \/ \E u \in Users, text \in texts : handle_text(u, text, bound)
    \/ \E u \in Users : stop(u, bound)
    \/ \E r \in rangeAnswers, m \in mevAnswers, v \in valAnswers : Evaluate(r, m, v)
    \/ Delivered
    \/ DeliveryFails
    \/ DictChanged
    \/ EndPass
    \/ Wake
    \/ Restart(bound)

\* the whole program: every answer of the API, few commands
Next == Step(MaxSchedOps, TextInputs, BlockRangeAnswers, MevAnswers, ValidatorAnswers)

Spec == Init /\ [][Next]_vars

\* the dialog: more commands, the API in good health
HealthyRange == {[kind |-> "ok", lastHeight |-> 60000]}
HealthyMev == {Ok(<< R500, R1200 >>)}
HealthyValidators == {Ok(<< V1, V2 >>)}

NextDialog == Step(MaxOps, TextInputs, HealthyRange, HealthyMev, HealthyValidators)

SpecDialog == Init /\ [][NextDialog]_vars

(* process_data on its own, called as check_mev_values calls it: line 131 lets
   no empty MEV frame through *)

BoundedSeq(S, n) == UNION {[1..k -> S] : k \in 0..n}

RecordPool == {R500, R1200, REq, RJust}
ValidatorPool == {V1, V2, V1b}
CallThresholds == {DefaultThreshold, 1000}

InitCorrelate ==
    /\ file = NoFile
    /\ user_settings = load_settings(file).data
    /\ keys = load_settings(file).keys
    /\ pc = "iter"
    /\ pos = 1
    /\ iterUsed = Len(keys)
    /\ settings = Unbound
    /\ pending = NoMessage
    /\ sent = << >>
    /\ evals = << >>
    /\ crash = "none"
    /\ lastSleep = 0
    /\ evaldPrev = {}
    /\ lastOp = [op |-> "start", user |-> "-", text |-> << >>]
    /\ ops = 0
    /\ script = [u \in Users |-> 0]
    /\ cIn \in [mev : BoundedSeq(RecordPool, MaxRecs) \ {<< >>},
                vals : BoundedSeq(ValidatorPool, MaxVals),
                threshold : CallThresholds]
    /\ cOut = NoResult

NextCorrelate == Correlate

SpecCorrelate == InitCorrelate /\ [][NextCorrelate]_vars

----------------------------------------------------------------------------
(* Properties *)

Handlers == {"configure", "text", "stop"}

\* the messages of the current pass addressed to u
SentTo(u) == SelectSeq(sent, LAMBDA m : m.to = u)

Heights(rows) == [i \in 1..Len(rows) |-> rows[i].height]

\* the records of a fetched dataset worth strictly more than t dollars
Above(data, t) == SelectSeq(data, LAMBDA r : r.value > t * Micro)

\* C1: a subscriber evaluated in two consecutive passes was made to wait at
\* least their own interval between the two (the sleep between the passes
\* lasted at least intervalHours of that subscriber).
C1_WaitsOwnInterval ==
    \A u \in DOMAIN evals \cap evaldPrev : lastSleep >= evals[u].interval

\* C2: a failed MEV or validator fetch only skips the subscriber: the
\* evaluation does not end in an exception and the loop is not terminated.
C2_FetchFailureSkips ==
    \A u \in DOMAIN evals :
        (evals[u].mev.status = "failed" \/ evals[u].vals.status = "failed")
            => (evals[u].outcome # "crash" /\ pc # "crashed")

\* C3: a subscriber who had no record and then sent exactly /configure, "yes",
\* "4", "250" is Active with notifications on, interval 4 and threshold 250,
\* and the persisted store holds that record.
C3_ScriptReachesActive ==
    \A u \in Users :
        script[u] = Len(Script) =>
            /\ Has(u)
            /\ user_settings[u] =
                  [notifications |-> TRUE, interval |-> 4, threshold |-> 250]
            /\ StageOf(user_settings[u]) = "Active"
            /\ file.exists
            /\ u \in DOMAIN file.data
            /\ file.data[u] = user_settings[u]

C3_Witness ==
    \E u \in Users :
        /\ script[u] = Len(Script)
        /\ lastOp = [op |-> "text", user |-> u, text |-> << "2", "5", "0" >>]

\* texts that are neither an integer nor a yes/no token
JunkTexts ==
    {t \in TextInputs :
        /\ ~IsIntLiteral(Normalize(t))
        /\ Normalize(t) \notin {<< "y" >>, Yes, << "n" >>, No}}

\* C4: a junk text from a subscriber in AwaitingInterval changes neither the
\* settings (hence not the stage) nor the persisted store.
C4_JunkKeepsAwaitingInterval ==
    [][\A u \in Users, t \in JunkTexts :
          (/\ Has(u)
           /\ StageOf(user_settings[u]) = "AwaitingInterval"
           /\ handle_text(u, t, MaxOps))
              => (user_settings' = user_settings /\ keys' = keys /\ file' = file)]_vars

C4_Witness ==
    /\ lastOp.op = "text"
    /\ lastOp.text \in JunkTexts
    /\ lastOp.user \in DOMAIN user_settings
    /\ StageOf(user_settings[lastOp.user]) = "AwaitingInterval"

\* C5: every message delivered in a pass lists, in one message per subscriber,
\* exactly the fetched blocks worth strictly more than the addressee's own
\* threshold; with blocks of $500 and $1200, a $300 subscriber gets both and a
\* $1000 subscriber only the $1200 block.
C5_OwnThresholdOnly ==
    /\ \A u \in Users : Len(SentTo(u)) <= 1
    /\ \A i \in 1..Len(sent) :
          LET m == sent[i]
              e == evals[m.to]
          IN  /\ m.threshold = e.threshold
              /\ Heights(m.lines) = Heights(Above(e.mev.data, e.threshold))
    /\ \A i, j \in 1..Len(sent) :
          (/\ evals[sent[i].to].mev.data = << R500, R1200 >>
           /\ evals[sent[j].to].mev.data = << R500, R1200 >>
           /\ evals[sent[i].to].threshold = 300
           /\ evals[sent[j].to].threshold = 1000)
              => (/\ Heights(sent[i].lines) = << R500.height, R1200.height >>
                  /\ Heights(sent[j].lines) = << R1200.height >>)

C5_Witness ==
    /\ Len(sent) = 2
    /\ sent[1].to = "A" /\ evals["A"].threshold = 300
    /\ sent[2].to = "B" /\ evals["B"].threshold = 1000
    /\ evals["A"].mev.data = << R500, R1200 >>
    /\ evals["B"].mev.data = << R500, R1200 >>
    /\ Len(sent[1].lines) = 2
    /\ Len(sent[2].lines) = 1

UniquePubkeys(validator_df) ==
    \A i, j \in 1..Len(validator_df) :
        validator_df[i].pubkey = validator_df[j].pubkey => i = j

Record(row) == [height |-> row.height, proposer |-> row.proposer, value |-> row.value]

\* C6: for any MEV records, any directory with unique pubkeys and any
\* threshold, process_data returns exactly the records worth strictly more
\* than the threshold, once each, in input order.
C6_ExactFilter ==
    (cOut.err # "not_called" /\ UniquePubkeys(cIn.vals)) =>
        /\ cOut.err = "none"
        /\ [i \in 1..Len(cOut.rows) |-> Record(cOut.rows[i])]
              = Above(cIn.mev, cIn.threshold)

\* the fetched records above u's threshold whose proposer is in no directory entry
Unmatched(e) ==
    SelectSeq(Above(e.mev.data, e.threshold),
              LAMBDA r : \A i \in 1..Len(e.vals.data) : e.vals.data[i].pubkey # r.proposer)

HasLine(m, r) ==
    \E i \in 1..Len(m.lines) :
        m.lines[i].height = r.height /\ m.lines[i].moniker = NoMoniker

\* C7: when both fetches succeed, a record above the threshold whose proposer
\* matches no validator (the directory may be empty) is listed, with an
\* unknown moniker, in the subscriber's message, and the evaluation does not
\* end in an error of the correlation.
C7_LeftJoinComplete ==
    \A u \in DOMAIN evals :
        LET e == evals[u] IN
        (e.mev.status = "ok" /\ e.vals.status = "ok" /\ Unmatched(e) # << >>) =>
            /\ crash # "merge_KeyError"
            /\ e.outcome = "sending" =>
                  \A i \in 1..Len(Unmatched(e)) : HasLine(pending, Unmatched(e)[i])
            /\ e.outcome = "delivered" =>
                  /\ SentTo(u) # << >>
                  /\ \A i \in 1..Len(Unmatched(e)) : HasLine(SentTo(u)[1], Unmatched(e)[i])

\* C8: a subscriber whose MEV fetch returned no record gets no message in that
\* pass, and the pass goes on to the next subscriber.
C8_EmptyWindowSilent ==
    \A u \in DOMAIN evals :
        (evals[u].mev.status = "ok" /\ evals[u].mev.data = << >>) =>
            /\ SentTo(u) = << >>
            /\ pending.to # u
            /\ evals[u].outcome = "mev_empty"

\* C9: right after /configure the subscriber's record is the default record,
\* whatever it was before.
C9_ConfigureResets ==
    \A u \in Users :
        lastOp = [op |-> "configure", user |-> u, text |-> << >>] =>
            (Has(u) /\ user_settings[u] = Defaults)

\* C10: after any handler the persisted store holds exactly the in-memory
\* settings, so load_settings would restore them.
C10_StoreMatchesMemory ==
    lastOp.op \in Handlers =>
        /\ load_settings(file).data = user_settings
        /\ load_settings(file).keys = keys

\* C11: with an empty subscriber set (no store at startup) check_mev_values is
\* never terminated: it ends its empty pass, sleeps and starts further passes.
C11_EmptyStoreLoopRuns ==
    keys = << >> => pc # "crashed"

\* the position of u in the dict's key order (0: no record)
IndexOf(u) == IF \E i \in 1..Len(keys) : keys[i] = u
              THEN CHOOSE i \in 1..Len(keys) : keys[i] = u
              ELSE 0

\* a step of check_mev_values that takes the dict iterator to u
Iterates(u) ==
    /\ pc = "iter"
    /\ pos <= Len(keys)
    /\ keys[pos] = u
    /\ Len(keys) = iterUsed
    /\ ops' = ops

\* C12: /stop of a subscriber with a record switches notifications off, keeps
\* interval and threshold and writes the store; /stop of a subscriber without
\* a record changes nothing; and a pass that comes to a subscriber whose flag
\* is off fetches nothing and sends nothing for them.
C12_StopDisablesOnly ==
    /\ [][\A u \in Users :
            stop(u, MaxSchedOps) =>
                IF Has(u)
                THEN /\ DOMAIN user_settings' = DOMAIN user_settings
                     /\ ~user_settings'[u].notifications
                     /\ user_settings'[u].interval = user_settings[u].interval
                     /\ user_settings'[u].threshold = user_settings[u].threshold
                     /\ file'.exists
                     /\ file'.data = user_settings'
                ELSE UNCHANGED << user_settings, keys, file >>]_vars
    /\ [][\A u \in Users :
            (Has(u) /\ ~user_settings[u].notifications /\ Iterates(u)) =>
                /\ pc' = "iter"
                /\ pos' = pos + 1
                /\ UNCHANGED << evals, sent, pending >>]_vars

\* A was evaluated in the previous pass, then sent /stop, and the pass that
\* followed has gone past A without evaluating them
C12_Witness ==
    \E u \in Users :
        /\ lastOp = [op |-> "stop", user |-> u, text |-> << >>]
        /\ Has(u) /\ ~user_settings[u].notifications
        /\ file.exists /\ u \in DOMAIN file.data /\ ~file.data[u].notifications
        /\ u \in evaldPrev
        /\ pc = "iter" /\ pos > IndexOf(u)
        /\ u \notin DOMAIN evals

\* C13: a subscriber whose block-range fetch failed (transport error, error
\* status, body that is not JSON, lastHeight absent or not a number) is
\* skipped for the pass: no MEV or validator fetch, no message, and the pass
\* goes on to the next subscriber.
C13_RangeFailureSkips ==
    \A u \in DOMAIN evals :
        (evals[u].mev.status = "not_called" /\ evals[u].outcome # "hung") =>
            /\ evals[u].outcome = "range_skip"
            /\ evals[u].vals.status = "not_called"
            /\ SentTo(u) = << >>
            /\ pending.to # u

\* C14: every subscriber record has an interval of at least one hour and a
\* threshold of at least zero dollars, and every sleep of the loop lasts at
\* least one hour.
C14_PositiveIntervalAndThreshold ==
    /\ \A u \in DOMAIN user_settings :
          user_settings[u].interval >= 1 /\ user_settings[u].threshold >= 0
    /\ pc = "sleeping" => lastSleep >= 1

\* any step of check_mev_values
SchedulerStep ==
    \/ \E r \in BlockRangeAnswers, m \in MevAnswers, v \in ValidatorAnswers :
          Evaluate(r, m, v)
    \/ Delivered
    \/ DeliveryFails
    \/ DictChanged
    \/ EndPass
    \/ Wake

\* any command handler
HandlerStep ==
    \/ \E u \in Users : configure(u, MaxSchedOps)
    \/ \E u \in Users, text \in TextInputs : handle_text(u, text, MaxSchedOps)
    \/ \E u \in Users : stop(u, MaxSchedOps)

\* C15: while a fetch for one subscriber has not returned, the loop can still
\* take a step for the others and the command handlers can still run.
C15_HungFetchLeavesOthersRunning ==
    (pc = "blocked" /\ ops < MaxSchedOps) =>
        (ENABLED SchedulerStep /\ ENABLED HandlerStep)

\* texts that int() reads as a positive integer
PositiveTexts ==
    {t \in TextInputs : IsIntLiteral(Normalize(t)) /\ ParseInt(Normalize(t)) >= 1}

\* C16: a positive integer k (1 included) entered in AwaitingInterval is
\* stored as the interval and takes the dialog to AwaitingThreshold; a
\* non-negative number v (300 included) entered in AwaitingThreshold is stored
\* as the threshold and takes the dialog to Active, where a further number
\* changes nothing.
C16_NumbersAdvanceTheDialog ==
    [][\A u \in Users, t \in PositiveTexts :
          (Has(u) /\ handle_text(u, t, MaxOps)) =>
              LET before == StageOf(user_settings[u])
                  after == StageOf(user_settings'[u])
                  k == ParseInt(Normalize(t))
              IN  /\ before = "AwaitingInterval" =>
                        (user_settings'[u].interval = k /\ after = "AwaitingThreshold")
                  /\ before = "AwaitingThreshold" =>
                        (user_settings'[u].threshold = k /\ after = "Active")
                  /\ before = "Active" => user_settings'[u] = user_settings[u]]_vars

\* u's dialog has just ended with notifications off: u's /stop or "no" was
\* the last input of all
EndedOff(u) ==
    /\ Has(u)
    /\ ~user_settings[u].notifications
    /\ lastOp.user = u
    /\ \/ lastOp.op = "stop"
       \/ lastOp.op = "text" /\ Normalize(lastOp.text) \in {<< "n" >>, No}

\* C17: once a subscriber's dialog has ended with notifications off, a text
\* reply of theirs neither switches notifications on nor changes the record.
C17_TextCannotReenable ==
    [][\A u \in Users, t \in TextInputs :
          (EndedOff(u) /\ handle_text(u, t, MaxOps)) =>
              user_settings'[u] = user_settings[u]]_vars

\* C18: a record created by /configure while a pass is suspended in a send
\* does not end check_mev_values: the dict iterator does not fail on the
\* dict that grew under it.
C18_ConfigureDuringPassIsSafe ==
    Len(keys) > iterUsed => ~(pc = "crashed" /\ crash = "dict_changed_size")

\* a step that is a handler call by u
HandlerCallBy(u) ==
    /\ ops' = ops + 1
    /\ lastOp'.user = u
    /\ lastOp'.op \in Handlers

\* C19: a handler call by one subscriber leaves every other subscriber's
\* in-memory record as it was (present and equal, or absent), and a text reply
\* from a subscriber without a record creates no record and changes nothing.
C19_HandlersTouchOnlyTheirUser ==
    [][\A u \in Users :
          HandlerCallBy(u) =>
              /\ \A b \in Users \ {u} :
                    IF Has(b)
                    THEN b \in DOMAIN user_settings' /\ user_settings'[b] = user_settings[b]
                    ELSE b \notin DOMAIN user_settings'
              /\ (lastOp'.op = "text" /\ ~Has(u)) =>
                    UNCHANGED << user_settings, keys, file >>]_vars

\* B, who has no record, has just sent a text, while A has a record
C19_Witness ==
    /\ lastOp.op = "text"
    /\ lastOp.user = "B"
    /\ "B" \notin DOMAIN user_settings
    /\ "A" \in DOMAIN user_settings

\* C20: no step of check_mev_values (a step that is no external event) changes a subscriber's settings in memory
\* (values or key order) or writes the persisted store.
C20_SchedulerNeverWrites ==
    [][ops' = ops => UNCHANGED << user_settings, keys, file >>]_vars

\* the loop has gone through a pass, a sleep and a delivery while the memory
\* holds a change the store does not
C20_Witness ==
    /\ evaldPrev # {}
    /\ sent # << >>
    /\ file.exists
    /\ file.data # user_settings

====
